---- MODULE Spec2Model ----
(***************************************************************************)
(* The real-time pipeline of src/bci_demo_ui.py: a DataSimulatorThread     *)
(* (QThread) emits batches of EEG samples and probability vectors; the     *)
(* BCIMainWindow, living in the GUI thread, receives them through queued   *)
(* signal/slot connections, keeps them in ring buffers (deque(maxlen)) and *)
(* redraws on a 50 ms QTimer.                                              *)
(*                                                                         *)
(* Execution contexts: the GUI thread runs one handler at a time from its  *)
(* event loop (mainpc); every producer thread has its own position (pc).   *)
(* Handlers that matter for atomicity are modelled statement by statement. *)
(*                                                                         *)
(* Units: time_counter and DataSimulatorThread.time count sample periods   *)
(* (1/250 s); a probability vector is a pair of numerators over a common   *)
(* denominator, in units of 0.01.                                          *)
(***************************************************************************)
EXTENDS Integers, Sequences, FiniteSets, TLC

\* ---------------------------------------------------------------- constants
n_channels == 8          \* BCIMainWindow.n_channels, DataSimulatorThread.n_channels

\* Capacities and periods of the source, kept small for model checking.
buffer_size == 3         \* deque(maxlen=self.buffer_size); 1000 in the source
batch_size == 2          \* samples per emitted batch; 10 in the source
fft_window == 3          \* samples needed for the spectrum; 256 in the source
switch_period == 2       \* inference_counter % 150 in the source

\* Rates and sizes of the source at their own values.
sample_rate == 250       \* DataSimulatorThread.sample_rate, Hz
assumed_rate == 250      \* the rate on_new_eeg_data and update_plots assume, Hz
fmax == 50               \* freq_mask = fft_freq <= 50, Hz
W == 256                 \* len(self.eeg_buffers[0]) >= 256

\* LSL markers of the motor imagery experiment.
MARKER_TRIAL_START == 768
MARKER_LEFT_HAND == 769
MARKER_RIGHT_HAND == 770
MARKER_TRIAL_END == 1768
MARKER_LEFT_HAND_END == 1769
MARKER_RIGHT_HAND_END == 1770

\* Trials of one class in a run, kept small; 10 in the source, and
\* TRIALS_PER_RUN is 20, twice as many.
TRIALS_PER_CLASS == 2
TRIALS_PER_RUN == 2 * TRIALS_PER_CLASS

\* Bounds of the exploration.
MaxBatches == 2          \* loop iterations all producer threads may start
MaxSessions == 2         \* DataSimulatorThread objects ever created
MaxArbitraryBatch == 3   \* largest batch_size handed directly to on_new_eeg_data
MaxArbitraryCalls == 3   \* direct calls of on_new_eeg_data
MaxInferenceCalls == 2   \* vectors built by run() or handed directly to on_new_inference

Channels == 0 .. n_channels - 1
None == 0                \* self.data_thread = None
NoBatch == [rows |-> 0, cols |-> << >>]
NoConfidence == -1       \* QLabel("置信度: --")
NoSpectrum == [window |-> << >>, bins |-> {}]   \* spectrum_curve before any setData

\* The two np.random.randn() * 0.1 of one iteration, in units of 0.01: the
\* draws the model considers.
Noise == {<< 0, 0 >>, << 30, 30 >>}

Min(a, b) == IF a < b THEN a ELSE b
Max(a, b) == IF a > b THEN a ELSE b

VARIABLES
  eeg_buffers,      \* [Channels -> Seq]: self.eeg_buffers
  time_buffer,      \* self.time_buffer
  time_counter,     \* self.time_counter, in sample periods
  inference_probs,  \* self.inference_probs
  class_indicator,  \* text of self.class_indicator: "pending" | "left" | "right"
  confidence_label, \* the shown confidence in tenths of a percent; NoConfidence is "--"
  is_connected,     \* self.is_connected
  data_thread,      \* self.data_thread: None or the index of a thread object
  btn_enabled,      \* self.connect_btn.isEnabled()
  singleshots,      \* pending QTimer.singleShot(2000, setEnabled(True)) timers
  threads,          \* the DataSimulatorThread objects created so far
  posted,           \* queued slot invocations waiting in the GUI thread's event queue
  mainpc,           \* what the GUI thread is executing
  cur,              \* on_new_eeg_data in progress: its data, i and ch
  frame,            \* what the last update_plots handed to the curves
  sent_data, recv_data,   \* history: batches emitted on new_data / begun by on_new_eeg_data
  sent_inf, recv_inf,     \* history: vectors emitted on new_inference / handled
  delivered,        \* history: total samples handed to on_new_eeg_data
  tick_view,        \* history: what the last execution of update_plots found
  exp_pc,           \* motor imagery experiment: the statement main() is at
  exp,              \* exp of main(): None or the MotorImageryExperiment object
  duration_markers, \* TRUE in motor_imagery_experiment_with_duration.py
  trial_sequence,   \* trial_sequence of run_experiment
  trial_idx,        \* position of the loop over trial_sequence
  markers,          \* the samples pushed to the LSL outlet, in order
  cleanups,         \* history: executions of cleanup()
  called,           \* history: the arguments of the calls of run_trial
  escaped_at        \* history: markers sent when Escape was detected, or -1

vars == << eeg_buffers, time_buffer, time_counter, inference_probs, class_indicator,
           confidence_label, is_connected, data_thread, btn_enabled, singleshots,
           threads, posted, mainpc, cur, frame, sent_data, recv_data, sent_inf,
           recv_inf, delivered, tick_view, exp_pc, exp, duration_markers,
           trial_sequence, trial_idx, markers, cleanups, called, escaped_at >>

bufferVars == << eeg_buffers, time_buffer, time_counter >>
inferenceVars == << inference_probs, class_indicator, confidence_label >>
sessionVars == << is_connected, data_thread, btn_enabled, singleshots >>
historyVars == << sent_data, recv_data, sent_inf, recv_inf, delivered, tick_view >>
expVars == << exp_pc, exp, duration_markers, trial_sequence, trial_idx, markers,
              cleanups, called, escaped_at >>
windowVars == << bufferVars, inferenceVars, sessionVars, historyVars, threads, posted,
                 mainpc, cur, frame >>

\* ------------------------------------------------------------ data helpers
\* deque(maxlen=buffer_size).append(x): append, evicting the oldest when full.
DequeAppendUnbounded(d, x) == Append(d, x)
DequeAppend(d, x) ==
  IF Len(d) >= buffer_size THEN Append(Tail(d), x) ELSE Append(d, x)

\* data.shape[1] and data[ch, i] of an ndarray whose columns are identified by
\* <<producer, sample index>>.
Shape1(data) == Len(data.cols)
DataAt(data, ch, i) == << data.cols[i + 1][1], data.cols[i + 1][2], ch >>

\* np.clip(x, 0.05, 0.95) in units of 0.01
ClipNoUpper(x) == Max(5, x)
Clip(x) == Max(5, Min(95, x))

\* probs = np.clip([left, right], 0.05, 0.95); probs = probs / probs.sum()
Normalized(left, right) ==
  [n |-> << Clip(left), Clip(right) >>, d |-> Clip(left) + Clip(right)]

\* The vector DataSimulatorThread.run builds for class c with noise draws a, b.
SimulatedProbs(c, a, b) ==
  IF c = 0 THEN Normalized(70 + a, 30 + b) ELSE Normalized(30 + a, 70 + b)

\* eeg_data of one loop iteration of thread t starting at sample index time.
SimulatedBatch(t, time) ==
  [rows |-> n_channels, cols |-> [j \in 1 .. batch_size |-> << t, time + j - 1 >>]]

NewThread ==
  [running |-> FALSE, pc |-> "created", time |-> 0, inference_counter |-> 0,
   current_class |-> 0, stop_called |-> FALSE, sample_rate |-> sample_rate]

ThreadIds == 1 .. Len(threads)
IsFinished(t) == threads[t].pc = "finished"
IsAlive(t) == threads[t].pc \notin {"created", "finished"}

\* ------------------------------------------------------------------- Init
InitialProbs == [n |-> << 50, 50 >>, d |-> 100]     \* np.array([0.5, 0.5])

Init ==
  /\ eeg_buffers = [ch \in Channels |-> << >>]
  /\ time_buffer = << >>
  /\ time_counter = 0
  /\ inference_probs = InitialProbs
  /\ class_indicator = "pending"
  /\ confidence_label = NoConfidence
  /\ is_connected = FALSE
  /\ data_thread = None
  /\ btn_enabled = TRUE
  /\ singleshots = 0
  /\ threads = << >>
  /\ posted = << >>
  /\ mainpc = "idle"
  /\ cur = [data |-> NoBatch, i |-> 0, ch |-> -1]
  /\ frame = [time |-> << >>, curves |-> [ch \in Channels |-> << >>],
              bars |-> InitialProbs, spectrum |-> NoSpectrum, packets |-> 0]
  /\ sent_data = << >>
  /\ recv_data = << >>
  /\ sent_inf = << >>
  /\ recv_inf = << >>
  /\ delivered = 0
  /\ tick_view = [ran |-> FALSE, connected |-> FALSE, stop_called |-> FALSE,
                  alive |-> FALSE, pending |-> 0, handled |-> 0, thread |-> None,
                  lens |-> << >>]
  /\ exp_pc = "main"
  /\ exp = None
  /\ duration_markers = FALSE
  /\ trial_sequence = << >>
  /\ trial_idx = 0
  /\ markers = << >>
  /\ cleanups = 0
  /\ called = << >>
  /\ escaped_at = -1

\* ------------------------------------------------------- producer thread
\* A queued connection posts the call and returns: the emit needs nothing from
\* the GUI thread.
CanEmitBlocking == mainpc = "idle"
CanEmit == TRUE

\* Posting a queued slot invocation: the GUI thread's event queue is first-in
\* first-out.
PostFront(q, e) == << e >> \o q
Post(q, e) == Append(q, e)

\* run(): self.running = True
RunBegin(t) ==
  /\ threads[t].pc = "started"
  /\ threads' = [threads EXCEPT ![t].running = TRUE, ![t].pc = "while"]
  /\ UNCHANGED << bufferVars, inferenceVars, sessionVars, posted, mainpc, cur, frame,
                  historyVars >>
  /\ UNCHANGED expVars

\* while self.running:
LoopTest(t) ==
  /\ threads[t].pc = "while"
  /\ IF threads[t].running
       THEN /\ Len(sent_data) < MaxBatches
            /\ threads' = [threads EXCEPT ![t].pc = "emit_data"]
       ELSE threads' = [threads EXCEPT ![t].pc = "finished"]
  /\ UNCHANGED << bufferVars, inferenceVars, sessionVars, posted, mainpc, cur, frame,
                  historyVars >>
  /\ UNCHANGED expVars

\* self.new_data.emit(eeg_data); self.time += batch_size / self.sample_rate
EmitData(t) ==
  /\ threads[t].pc = "emit_data"
  /\ CanEmit
  /\ LET data == SimulatedBatch(t, threads[t].time) IN
       /\ posted' = Post(posted, [type |-> "new_data", src |-> t, data |-> data])
       /\ sent_data' = Append(sent_data, data)
  /\ threads' = [threads EXCEPT ![t].time = @ + batch_size, ![t].pc = "emit_inference"]
  /\ UNCHANGED << bufferVars, inferenceVars, sessionVars, mainpc, cur, frame,
                  recv_data, sent_inf, recv_inf, delivered, tick_view >>
  /\ UNCHANGED expVars

\* inference_counter, class switch, probabilities, self.new_inference.emit(probs)
EmitInference(t) ==
  /\ threads[t].pc = "emit_inference"
  /\ CanEmit
  /\ \E noise \in Noise :
       LET counter == threads[t].inference_counter + 1
           class == IF counter % switch_period = 0
                      THEN 1 - threads[t].current_class
                      ELSE threads[t].current_class
           probs == SimulatedProbs(class, noise[1], noise[2])
       IN /\ posted' = Post(posted, [type |-> "new_inference", src |-> t,
                                     probs |-> probs])
          /\ sent_inf' = Append(sent_inf, probs)
          /\ threads' = [threads EXCEPT ![t].inference_counter = counter,
                                        ![t].current_class = class,
                                        ![t].pc = "msleep"]
  /\ UNCHANGED << bufferVars, inferenceVars, sessionVars, mainpc, cur, frame,
                  sent_data, recv_data, recv_inf, delivered, tick_view >>
  /\ UNCHANGED expVars

\* stop(): self.running = False
stopKeepsRunning(th) == [th EXCEPT !.stop_called = TRUE]
stop(th) == [th EXCEPT !.running = FALSE, !.stop_called = TRUE]

\* self.msleep(20)
Msleep(t) ==
  /\ threads[t].pc = "msleep"
  /\ threads' = [threads EXCEPT ![t].pc = "while"]
  /\ UNCHANGED << bufferVars, inferenceVars, sessionVars, posted, mainpc, cur, frame,
                  historyVars >>
  /\ UNCHANGED expVars

\* ------------------------------------------------------------ GUI thread
\* The event loop of the GUI thread hands out the next event (a queued slot
\* invocation, a timer event, a click) only when no handler is running.
GuiReady == mainpc = "idle"

\* on_new_eeg_data(data): batch_size = data.shape[1], then the loop begins
BeginIngest(data) ==
  /\ mainpc' = "on_new_eeg_data"
  /\ cur' = [data |-> data, i |-> 0, ch |-> -1]
  /\ recv_data' = Append(recv_data, data)
  /\ delivered' = delivered + Shape1(data)

\* one statement of the loops of on_new_eeg_data
IngestStep ==
  /\ mainpc = "on_new_eeg_data"
  /\ IF cur.i >= Shape1(cur.data)
       THEN \* loop over i exhausted; samples_label.setText; return
            /\ mainpc' = "idle"
            /\ cur' = [data |-> NoBatch, i |-> 0, ch |-> -1]
            /\ UNCHANGED bufferVars
       ELSE IF cur.ch = -1
         THEN \* time_buffer.append(time_counter); time_counter += 1/250
              /\ time_buffer' = DequeAppend(time_buffer, time_counter)
              /\ time_counter' = time_counter + 1
              /\ cur' = [cur EXCEPT !.ch = 0]
              /\ UNCHANGED << eeg_buffers, mainpc >>
         ELSE IF cur.ch >= cur.data.rows
           THEN \* data[ch, i] raises IndexError: the exception leaves the slot
                \* and, no sys.excepthook being installed, PyQt ends the process
                /\ mainpc' = "aborted"
                /\ UNCHANGED << bufferVars, cur >>
           ELSE \* eeg_buffers[ch].append(data[ch, i])
                /\ eeg_buffers' = [eeg_buffers EXCEPT
                     ![cur.ch] = DequeAppend(@, DataAt(cur.data, cur.ch, cur.i))]
                /\ cur' = IF cur.ch + 1 < n_channels
                            THEN [cur EXCEPT !.ch = @ + 1]
                            ELSE [cur EXCEPT !.ch = -1, !.i = @ + 1]
                /\ UNCHANGED << time_buffer, time_counter, mainpc >>
  /\ UNCHANGED << inferenceVars, sessionVars, threads, posted, frame, sent_data,
                  recv_data, sent_inf, recv_inf, delivered, tick_view >>
  /\ UNCHANGED expVars

\* the queued invocation of on_new_eeg_data reaches the head of the event queue
DeliverData ==
  /\ GuiReady
  /\ posted # << >>
  /\ Head(posted).type = "new_data"
  /\ BeginIngest(Head(posted).data)
  /\ posted' = Tail(posted)
  /\ UNCHANGED << bufferVars, inferenceVars, sessionVars, threads, frame, sent_data,
                  sent_inf, recv_inf, tick_view >>
  /\ UNCHANGED expVars

\* if probs[0] > probs[1]: "left" else: "right"
LabelOfSwapped(probs) == IF probs.n[1] < probs.n[2] THEN "left" ELSE "right"
LabelOf(probs) == IF probs.n[1] > probs.n[2] THEN "left" ELSE "right"

\* a / b rounded to the nearest integer, halves to the even one (a >= 0, b > 0)
RoundHalfEven(a, b) ==
  LET q == a \div b
      r == a % b
  IN IF 2 * r < b THEN q
     ELSE IF 2 * r > b THEN q + 1
     ELSE IF q % 2 = 0 THEN q ELSE q + 1

\* confidence = max(probs) * 100, shown as f"{confidence:.1f}": tenths of a percent
ConfidenceOfSmaller(probs) == RoundHalfEven(1000 * Min(probs.n[1], probs.n[2]), probs.d)
ConfidenceOf(probs) == RoundHalfEven(1000 * Max(probs.n[1], probs.n[2]), probs.d)

\* on_new_inference(probs): the fields of the window it writes and the raw
\* buffers, which it does not touch
on_new_inferenceStamping(probs) ==
  /\ inference_probs' = probs
  /\ class_indicator' = LabelOf(probs)
  /\ confidence_label' = ConfidenceOf(probs)
  /\ recv_inf' = Append(recv_inf, probs)
  /\ time_counter' = time_counter + 1
  /\ UNCHANGED << eeg_buffers, time_buffer >>

on_new_inference(probs) ==
  /\ inference_probs' = probs
  /\ class_indicator' = LabelOf(probs)
  /\ confidence_label' = ConfidenceOf(probs)
  /\ recv_inf' = Append(recv_inf, probs)
  /\ UNCHANGED bufferVars

DeliverInference ==
  /\ GuiReady
  /\ posted # << >>
  /\ Head(posted).type = "new_inference"
  /\ on_new_inference(Head(posted).probs)
  /\ posted' = Tail(posted)
  /\ UNCHANGED << sessionVars, threads, mainpc, cur, frame, sent_data,
                  recv_data, sent_inf, delivered, tick_view >>
  /\ UNCHANGED expVars

\* list(d)[-n:]
LastN(d, n) == SubSeq(d, Len(d) - n + 1, Len(d))

\* np.fft.rfftfreq(n, 1/250): bin k is the frequency k * 250 / n, k = 0 .. n // 2
rfftfreq(n) == 0 .. (n \div 2)

\* fft_freq[freq_mask], freq_mask = fft_freq <= 50: the bins handed to the curve
MaskedBins(n) == {k \in rfftfreq(n) : k * assumed_rate <= fmax * n}

\* if len(self.eeg_buffers[0]) >= 256
HasWindowStrict(d) == Len(d) > fft_window
HasWindow(d) == Len(d) >= fft_window

\* spectrum_curve.setData(...): the window transformed and the bins shown
SpectralFrame(d) ==
  [window |-> LastN(d, fft_window), bins |-> MaskedBins(fft_window)]

\* packet_count = int(self.time_counter * 250 / 10)
packet_countPerTick == frame.packets + 1
packet_count == time_counter \div batch_size

\* if not self.is_connected or len(self.time_buffer) == 0: return
NoOpTickDataOnly == Len(time_buffer) = 0
NoOpTick == ~is_connected \/ Len(time_buffer) = 0

\* update_plots(), run by the 50 ms QTimer
TimerMayFireAnytime == TRUE
TimerMayFire == GuiReady

update_plots ==
  /\ TimerMayFire
  /\ tick_view' = [ran |-> TRUE,
                   connected |-> is_connected,
                   stop_called |-> data_thread # None /\ threads[data_thread].stop_called,
                   alive |-> \E t \in ThreadIds : ~IsFinished(t),
                   pending |-> Len(posted),
                   handled |-> Len(recv_data) + Len(recv_inf),
                   thread |-> data_thread,
                   lens |-> << Len(time_buffer) >> \o [c \in 1 .. n_channels |->
                                                         Len(eeg_buffers[c - 1])]]
  /\ IF NoOpTick
       THEN UNCHANGED frame
       ELSE frame' = [time |-> time_buffer,
                      curves |-> eeg_buffers,
                      bars |-> inference_probs,
                      spectrum |-> IF HasWindow(eeg_buffers[0])
                                     THEN SpectralFrame(eeg_buffers[0])
                                     ELSE frame.spectrum,
                      packets |-> packet_count]
  /\ UNCHANGED << bufferVars, inferenceVars, sessionVars, threads, posted, mainpc, cur,
                  sent_data, recv_data, sent_inf, recv_inf, delivered >>
  /\ UNCHANGED expVars

\* A connect branch that also emptied the buffers and reset the time counter;
\* toggle_connection has no such statements.
ConnectWithReset(rate) ==
  /\ GuiReady
  /\ btn_enabled
  /\ ~is_connected
  /\ Len(threads) < MaxSessions
  /\ btn_enabled' = FALSE
  /\ threads' = Append(threads, [NewThread EXCEPT !.pc = "started",
                                                   !.sample_rate = rate])
  /\ data_thread' = Len(threads) + 1
  /\ is_connected' = TRUE
  /\ singleshots' = singleshots + 1
  /\ eeg_buffers' = [ch \in Channels |-> << >>]
  /\ time_buffer' = << >>
  /\ time_counter' = 0
  /\ UNCHANGED << inferenceVars, posted, mainpc, cur, frame, historyVars >>
  /\ UNCHANGED expVars

\* toggle_connection(), connect branch (not self.is_connected), the thread it
\* starts producing at the given rate; the buffers are left as they are
ConnectWith(rate) ==
  /\ GuiReady
  /\ btn_enabled
  /\ ~is_connected
  /\ Len(threads) < MaxSessions
  /\ btn_enabled' = FALSE
  /\ threads' = Append(threads, [NewThread EXCEPT !.pc = "started",
                                                   !.sample_rate = rate])
  /\ data_thread' = Len(threads) + 1
  /\ is_connected' = TRUE
  /\ singleshots' = singleshots + 1
  /\ UNCHANGED << bufferVars, inferenceVars, posted, mainpc, cur, frame, historyVars >>
  /\ UNCHANGED expVars

Connect == ConnectWith(sample_rate)

\* toggle_connection(), else branch up to the call of wait(): data_thread.stop()
DisconnectStop ==
  /\ GuiReady
  /\ btn_enabled
  /\ is_connected
  /\ IF data_thread # None
       THEN threads' = [threads EXCEPT ![data_thread] = stop(@)]
       ELSE UNCHANGED threads
  /\ mainpc' = "wait"
  /\ UNCHANGED << bufferVars, inferenceVars, sessionVars, posted, cur, frame,
                  historyVars >>
  /\ UNCHANGED expVars

\* QThread.wait() returns once run() has returned
WaitOverAtOnce(t) == TRUE
WaitOver(t) == t = None \/ IsFinished(t)

\* toggle_connection(), else branch from the return of wait(): is_connected = False
DisconnectDone ==
  /\ mainpc = "wait"
  /\ WaitOver(data_thread)
  /\ is_connected' = FALSE
  /\ mainpc' = "idle"
  /\ UNCHANGED << bufferVars, inferenceVars, data_thread, btn_enabled, singleshots,
                  threads, posted, cur, frame, historyVars >>
  /\ UNCHANGED expVars

\* QTimer.singleShot(2000, lambda: self.connect_btn.setEnabled(True))
SingleShot ==
  /\ GuiReady
  /\ singleshots > 0
  /\ singleshots' = singleshots - 1
  /\ btn_enabled' = TRUE
  /\ UNCHANGED << bufferVars, inferenceVars, is_connected, data_thread, threads, posted,
                  mainpc, cur, frame, historyVars >>
  /\ UNCHANGED expVars

\* --------------------------------------------------------- specifications
Next ==
  \/ \E t \in ThreadIds : RunBegin(t)
  \/ \E t \in ThreadIds : LoopTest(t)
  \/ \E t \in ThreadIds : EmitData(t)
  \/ \E t \in ThreadIds : EmitInference(t)
  \/ \E t \in ThreadIds : Msleep(t)
  \/ DeliverData
  \/ IngestStep
  \/ DeliverInference
  \/ update_plots
  \/ Connect
  \/ DisconnectStop
  \/ DisconnectDone
  \/ SingleShot

Spec == Init /\ [][Next]_vars

\* The probability pipeline alone. left_prob and right_prob of run() are any
\* reals (0.7 + a normal draw): the values the model considers, in units of 0.01.
RawValues == {-10, 5, 50, 70, 120}

\* lines 77-81 of run() applied to given left_prob and right_prob
SimulateInference(left, right) ==
  /\ Len(recv_inf) + Len(posted) < MaxInferenceCalls
  /\ posted' = Post(posted, [type |-> "new_inference", src |-> 0,
                             probs |-> Normalized(left, right)])
  /\ sent_inf' = Append(sent_inf, Normalized(left, right))
  /\ UNCHANGED << bufferVars, inferenceVars, sessionVars, threads, mainpc, cur, frame,
                  sent_data, recv_data, recv_inf, delivered, tick_view >>
  /\ UNCHANGED expVars

\* on_new_inference called directly with a vector that need not be normalized:
\* its components, in units of 0.01
InputValues == {0, 10, 50, 90, 100}

CallInference(a, b) ==
  /\ GuiReady
  /\ Len(recv_inf) + Len(posted) < MaxInferenceCalls
  /\ on_new_inference([n |-> << a, b >>, d |-> 100])
  /\ UNCHANGED << sessionVars, threads, posted, mainpc, cur, frame,
                  sent_data, recv_data, sent_inf, delivered, tick_view >>
  /\ UNCHANGED expVars

NextInference ==
  \/ \E left \in RawValues, right \in RawValues : SimulateInference(left, right)
  \/ DeliverInference
  \/ \E a \in InputValues, b \in InputValues : CallInference(a, b)

SpecInference == Init /\ [][NextInference]_vars

\* run() ends by an exception raised inside it. The thread is over; the process
\* goes on if a sys.excepthook swallows the exception and is ended by PyQt if
\* none does, so both outcomes are kept.
RunFails(t) ==
  /\ threads[t].pc \in {"while", "emit_data", "emit_inference", "msleep"}
  /\ threads' = [threads EXCEPT ![t].pc = "finished"]
  /\ mainpc' \in {mainpc, "aborted"}
  /\ UNCHANGED << bufferVars, inferenceVars, sessionVars, posted, cur, frame,
                  historyVars >>
  /\ UNCHANGED expVars

NextFailure ==
  \/ Next
  \/ \E t \in ThreadIds : RunFails(t)

\* What the schedulers guarantee: the event loop of the GUI thread keeps handing
\* out queued invocations and timer events and a running handler goes on; a
\* started thread goes on. Clicks and failures are not forced.
GuiStep ==
  DeliverData \/ IngestStep \/ DeliverInference \/ update_plots \/ SingleShot
    \/ DisconnectDone

ThreadStep(t) ==
  /\ t \in ThreadIds
  /\ RunBegin(t) \/ LoopTest(t) \/ EmitData(t) \/ EmitInference(t) \/ Msleep(t)

SpecFailure ==
  /\ Init
  /\ [][NextFailure]_vars
  /\ WF_vars(GuiStep)
  /\ \A t \in 1 .. MaxSessions : WF_vars(ThreadStep(t))

\* on_new_eeg_data called directly with a batch of any size n >= 0
ArbitraryBatch(n) ==
  [rows |-> n_channels, cols |-> [j \in 1 .. n |-> << 0, delivered + j - 1 >>]]

CallIngest(n) ==
  /\ GuiReady
  /\ Len(recv_data) < MaxArbitraryCalls
  /\ BeginIngest(ArbitraryBatch(n))
  /\ UNCHANGED << bufferVars, inferenceVars, sessionVars, threads, posted, frame,
                  sent_data, sent_inf, recv_inf, tick_view >>
  /\ UNCHANGED expVars

NextIngest ==
  \/ \E n \in 0 .. MaxArbitraryBatch : CallIngest(n)
  \/ IngestStep

SpecIngest == Init /\ [][NextIngest]_vars

\* on_new_eeg_data called directly with a batch that may be malformed: rows
\* channel rows instead of n_channels, or (finite = FALSE) non-finite values,
\* written as samples of producer -1.
RowCounts == {n_channels - 1, n_channels, n_channels + 1}

AnyBatch(rows, n, finite) ==
  [rows |-> rows,
   cols |-> [j \in 1 .. n |-> << IF finite THEN 0 ELSE -1, delivered + j - 1 >>]]

IsMalformed(data) ==
  \/ data.rows # n_channels
  \/ \E j \in 1 .. Len(data.cols) : data.cols[j][1] = -1

CallIngestAny(rows, n, finite) ==
  /\ GuiReady
  /\ Len(recv_data) < MaxArbitraryCalls
  /\ BeginIngest(AnyBatch(rows, n, finite))
  /\ UNCHANGED << bufferVars, inferenceVars, sessionVars, threads, posted, frame,
                  sent_data, sent_inf, recv_inf, tick_view >>
  /\ UNCHANGED expVars

NextMalformed ==
  \/ \E rows \in RowCounts, n \in 0 .. batch_size, finite \in BOOLEAN :
        CallIngestAny(rows, n, finite)
  \/ IngestStep

SpecMalformed == Init /\ [][NextMalformed]_vars

\* ------------------------------------------------------------------ claims
AllLengthsEqual(lens) == \A k \in 1 .. Len(lens) : lens[k] = lens[1]
BuffersEmpty == time_buffer = << >> /\ \A ch \in Channels : eeg_buffers[ch] = << >>
PendingOf(type) == SelectSeq(posted, LAMBDA e : e.type = type)

\* C1: after every batch handed to on_new_eeg_data (any batch_size >= 0) each of
\* the 8 channel buffers holds exactly min(buffer_size, total samples delivered)
\* elements.
C1_BufferLengths ==
  mainpc # "on_new_eeg_data" =>
    \A ch \in Channels : Len(eeg_buffers[ch]) = Min(buffer_size, delivered)

C1_Witness ==
  /\ mainpc = "idle"
  /\ Len(recv_data) = MaxArbitraryCalls
  /\ \E k \in 1 .. Len(recv_data) : Shape1(recv_data[k]) = 0
  /\ delivered > buffer_size
  /\ \A ch \in Channels : Len(eeg_buffers[ch]) = buffer_size

\* C11: while on_new_eeg_data handles a malformed batch (a channel count other
\* than n_channels, or a non-finite value) it changes neither the time axis
\* buffer, nor a channel buffer, nor the time counter: the state after the call
\* is the state before it.
C11_MalformedBatchRejected ==
  [][(mainpc = "on_new_eeg_data" /\ IsMalformed(cur.data)) => UNCHANGED bufferVars]_vars

\* C12: when the producer's run() has ended during a session without a
\* disconnect request, the session eventually reports disconnected.
ProducerDied ==
  /\ is_connected
  /\ data_thread # None
  /\ IsFinished(data_thread)
  /\ ~threads[data_thread].stop_called

C12_ProducerDeathSurfaced == ProducerDied ~> ~is_connected

\* C13: the disconnect branch returns even if the producer does not quiesce:
\* whenever the GUI thread is inside wait() and the producer's flag is True (its
\* loop will not end), the branch can go on to is_connected = False.
C13_DisconnectNeverHangs ==
  (mainpc = "wait" /\ data_thread # None /\ threads[data_thread].running
     /\ ~IsFinished(data_thread))
    => ENABLED DisconnectDone

LastReceived == recv_inf[Len(recv_inf)]

\* Two vectors with the same components (as fractions)
SameVector(p, q) == \A i \in 1 .. 2 : p.n[i] * q.d = q.n[i] * p.d

\* The vector p clamped componentwise to [0.05, 0.95] and renormalized
ClampRenorm(p) ==
  LET c == [i \in 1 .. 2 |-> Max(5 * p.d, Min(95 * p.d, 100 * p.n[i]))]
  IN [n |-> c, d |-> c[1] + c[2]]

\* C14: when the vector handed to on_new_inference has two equal components the
\* label is class 0 (left hand).
C14_TieFavoursFirst ==
  (recv_inf # << >> /\ LastReceived.n[1] = LastReceived.n[2]) => class_indicator = "left"

\* C15: the stored probabilities and the shown confidence are those of the
\* received vector after clamping to [0.05, 0.95] and renormalizing; [1.0, 0.0]
\* is stored as [0.95, 0.05] with label class 0 and confidence 95.0.
C15_ClampedOnReceipt ==
  recv_inf # << >> =>
    /\ SameVector(inference_probs, ClampRenorm(LastReceived))
    /\ confidence_label = ConfidenceOf(ClampRenorm(LastReceived))
    /\ LastReceived = [n |-> << 100, 0 >>, d |-> 100]
         => (class_indicator = "left" /\ confidence_label = 950)

\* C16: every vector built by clip to [0.05, 0.95] and division by the sum has
\* components that sum to 1, each between 0.05 / sum and 0.95 / sum (sum: the
\* sum after the clamp) and within [0.05, 0.95].
C16_ClampRenormBounds ==
  \A k \in 1 .. Len(sent_inf) :
    LET p == sent_inf[k] IN
      /\ p.d > 0
      /\ p.n[1] + p.n[2] = p.d
      /\ \A i \in 1 .. 2 :
           /\ 5 <= p.n[i] /\ p.n[i] <= 95
           /\ 5 * p.d <= 100 * p.n[i] /\ 100 * p.n[i] <= 95 * p.d

C16_Witness ==
  /\ Len(sent_inf) = MaxInferenceCalls
  /\ \E k \in 1 .. Len(sent_inf) : sent_inf[k].n = << 95, 5 >>
  /\ \E k \in 1 .. Len(sent_inf) : sent_inf[k].n = << 95, 95 >>

\* C17: for a received vector with unequal components the label is the index of
\* the larger one, the shown confidence is max(probabilities) x 100 (to the one
\* decimal the label shows) and the vector is stored unchanged; [0.9, 0.1] gives
\* label class 0 and confidence 90.0.
C17_LabelAndConfidence ==
  (recv_inf # << >> /\ LastReceived.n[1] # LastReceived.n[2]) =>
    LET p == LastReceived
        m == Max(p.n[1], p.n[2])
    IN /\ p.n[1] > p.n[2] => class_indicator = "left"
       /\ p.n[2] > p.n[1] => class_indicator = "right"
       /\ 2 * (confidence_label * p.d - 1000 * m) <= p.d
       /\ 2 * (1000 * m - confidence_label * p.d) <= p.d
       /\ inference_probs = p
       /\ p = [n |-> << 90, 10 >>, d |-> 100] => confidence_label = 900

C17_Witness ==
  /\ Len(recv_inf) = MaxInferenceCalls
  /\ LastReceived = [n |-> << 90, 10 >>, d |-> 100]
  /\ inference_probs = LastReceived
  /\ class_indicator = "left"
  /\ confidence_label = 900
  /\ \E k \in 1 .. Len(recv_inf) : recv_inf[k].n[2] > recv_inf[k].n[1]

\* C2: every execution of update_plots finds the time axis buffer and the 8
\* channel buffers at one common length, in every interleaving of emissions,
\* queued deliveries and timer ticks.
C2_TickSeesEqualLengths == tick_view.ran => AllLengthsEqual(tick_view.lens)

C2_Witness ==
  /\ tick_view.ran
  /\ tick_view.connected
  /\ tick_view.pending > 0
  /\ tick_view.lens[1] > 0
  /\ tick_view.lens[1] < buffer_size

\* C3: per signal the hand-off is first-in first-out and lossless: the batches
\* (vectors) emitted so far are exactly those already handed to the slot, in
\* emission order, followed by those still queued.
C3_FifoLossless ==
  /\ sent_data = recv_data \o [k \in 1 .. Len(PendingOf("new_data")) |->
                                 PendingOf("new_data")[k].data]
  /\ sent_inf = recv_inf \o [k \in 1 .. Len(PendingOf("new_inference")) |->
                               PendingOf("new_inference")[k].probs]

C3_Witness ==
  /\ Len(recv_data) = MaxBatches
  /\ Len(recv_inf) = MaxBatches
  /\ recv_data = sent_data
  /\ recv_inf = sent_inf
  /\ recv_inf[1] # recv_inf[2]

\* C4: once the disconnect branch of toggle_connection has returned and until the
\* next connect, neither on_new_eeg_data nor on_new_inference runs: the ring
\* buffers, the time axis and the classification state stay unchanged.
C4_NoDeliveryAfterStop ==
  [][(~is_connected /\ ~is_connected') => UNCHANGED << bufferVars, inferenceVars >>]_vars

\* C5: after stop() the run loop exits. The loop exits only by reading
\* self.running = False, and while the GUI thread waits nothing writes the flag but
\* run() itself, so the loop exits exactly if the flag is False whenever stop() has
\* been called on a thread that has not finished.
C5_StopQuiesces ==
  \A t \in ThreadIds :
    (threads[t].stop_called /\ ~IsFinished(t)) => ~threads[t].running

\* C6: when the disconnect branch completes the channel buffers and the time axis
\* are empty, and a session starts with empty buffers and the time counter at 0.
C6_NoDataSurvives ==
  [][((mainpc = "wait" /\ mainpc' = "idle") \/ (~is_connected /\ is_connected'))
       => (BuffersEmpty' /\ (is_connected' => time_counter' = 0))]_vars

\* C7: a request issued after a disconnect, while already disconnected, leaves the
\* terminal state of the first: disconnected, no producer started, buffers empty.
C7_DisconnectIdempotent ==
  [][(~is_connected /\ Len(threads) > 0 /\ mainpc = "idle")
       => (~is_connected' /\ threads' = threads /\ BuffersEmpty')]_vars

C9_TickSeesNoPartialTeardown ==
  tick_view.ran =>
    /\ \/ tick_view.connected /\ ~tick_view.stop_called
       \/ ~tick_view.connected /\ ~tick_view.alive
    /\ AllLengthsEqual(tick_view.lens)

C9_Witness ==
  /\ tick_view.ran
  /\ ~tick_view.connected
  /\ tick_view.lens[1] > 0
  /\ \E t \in ThreadIds : threads[t].stop_called

\* C10: an emit never waits for the GUI thread: whenever a producer stands at one
\* of its emits (or at its sleep) its next step is enabled, also while the GUI
\* thread is inside a handler or blocked in wait().
C10_ProducerNeverBlocked ==
  \A t \in ThreadIds :
    threads[t].pc \in {"emit_data", "emit_inference", "msleep"}
      => ENABLED (EmitData(t) \/ EmitInference(t) \/ Msleep(t))

C10_Witness ==
  \E t \in ThreadIds :
    /\ threads[t].pc = "emit_inference"
    /\ mainpc = "wait"
    /\ posted # << >>

\* ------------------------------------------------ sources of other rates
\* One session whose DataSimulatorThread has self.sample_rate set to any of these
\* rates (Hz); on_new_eeg_data is the receiver it delivers to.
SampleRates == {125, 250, 500}

NextRate ==
  \/ \E rate \in SampleRates : ConnectWith(rate)
  \/ \E t \in ThreadIds : RunBegin(t)
  \/ \E t \in ThreadIds : LoopTest(t)
  \/ \E t \in ThreadIds : EmitData(t)
  \/ \E t \in ThreadIds : EmitInference(t)
  \/ \E t \in ThreadIds : Msleep(t)
  \/ DeliverData
  \/ IngestStep
  \/ DeliverInference
  \/ SingleShot

SpecRate == Init /\ [][NextRate]_vars

\* C18: on a render tick of an active session with fewer than the window's
\* samples in channel 0 no spectral frame is produced and no error is raised;
\* with exactly the window's samples a frame of those samples is produced; every
\* bin k of a produced frame is a frequency in [0, 50] Hz, bin 0 included, and
\* for the window of 256 samples these are the bins 0 .. 51.
C18_SpectralReadiness ==
  [][(update_plots /\ is_connected /\ Len(time_buffer) > 0) =>
       /\ mainpc' = "idle"
       /\ Len(eeg_buffers[0]) < fft_window => frame'.spectrum = frame.spectrum
       /\ Len(eeg_buffers[0]) = fft_window =>
            /\ frame'.spectrum.window = eeg_buffers[0]
            /\ 0 \in frame'.spectrum.bins
       /\ \A k \in frame'.spectrum.bins :
            0 <= k * assumed_rate /\ k * assumed_rate <= fmax * fft_window
       /\ MaskedBins(W) = 0 .. 51
       /\ \A k \in MaskedBins(W) : 0 <= k * 250 /\ k * 250 <= 50 * 256]_vars

C18_Witness ==
  /\ tick_view.ran
  /\ tick_view.connected
  /\ Len(eeg_buffers[0]) = fft_window
  /\ frame.spectrum.window = eeg_buffers[0]
  /\ 0 \in frame.spectrum.bins

\* C19: a render tick changes no output (curves, bars, spectrum, packet count)
\* and raises nothing when no session is active or no sample has ever arrived;
\* in every other state it presents the time axis and, for every channel, a
\* sequence as long as the buffers are.
C19_NoOpTick ==
  [][update_plots =>
       /\ mainpc' = "idle"
       /\ IF ~is_connected \/ time_counter = 0
            THEN frame' = frame
            ELSE /\ frame'.time = time_buffer
                 /\ \A ch \in Channels :
                      /\ frame'.curves[ch] = eeg_buffers[ch]
                      /\ Len(frame'.curves[ch]) = Len(time_buffer)]_vars

C19_Witness ==
  /\ tick_view.ran
  /\ ~tick_view.connected
  /\ ~is_connected
  /\ tick_view.lens[1] = Len(time_buffer)
  /\ Len(time_buffer) > 0
  /\ frame.time # time_buffer

\* C20: whatever rate the delivering source has, consecutive entries of the time
\* axis increase strictly and differ by one sample period of that rate (entries
\* count periods of 1/250 s: a difference d is d / 250 s, one period of the
\* source is 1 / sample_rate s).
C20_TimeAxisPeriod ==
  mainpc = "idle" =>
    \A i \in 1 .. Len(time_buffer) - 1 :
      /\ time_buffer[i] < time_buffer[i + 1]
      /\ (time_buffer[i + 1] - time_buffer[i])
           * threads[eeg_buffers[0][i + 1][1]].sample_rate = assumed_rate

\* Samples of the batches in seq that producer t built.
RECURSIVE SamplesFrom(_, _)
SamplesFrom(seq, t) ==
  IF seq = << >> THEN 0
  ELSE (IF Shape1(Head(seq)) > 0 /\ Head(seq).cols[1][1] = t
          THEN Shape1(Head(seq)) ELSE 0) + SamplesFrom(Tail(seq), t)

\* The sample indices T - min(N, T) .. T - 1, oldest first.
LastIndices(T) ==
  [i \in 1 .. Min(buffer_size, T) |-> T - Min(buffer_size, T) + i - 1]

\* C21: between handlers of a connected session that has ingested T samples,
\* each channel buffer holds the last min(N, T) samples of that session in
\* arrival order and the time axis holds the indices T - min(N, T) .. T - 1.
C21_SlidingWindow ==
  (mainpc = "idle" /\ is_connected) =>
    LET T == SamplesFrom(recv_data, data_thread) IN
      /\ time_buffer = LastIndices(T)
      /\ \A ch \in Channels :
           eeg_buffers[ch] = [i \in 1 .. Min(buffer_size, T) |->
                                << data_thread, LastIndices(T)[i], ch >>]

\* C22: a render tick and an inference delivery leave the channel buffers, the
\* time axis and the time counter unchanged, and a batch delivery, in every
\* statement of it, leaves the stored probability vector unchanged.
C22_OnlyBatchesMutate ==
  [][/\ (update_plots \/ DeliverInference) =>
          /\ eeg_buffers' = eeg_buffers
          /\ time_buffer' = time_buffer
          /\ time_counter' = time_counter
     /\ (DeliverData \/ IngestStep) => inference_probs' = inference_probs]_vars

C22_Witness ==
  /\ mainpc = "idle"
  /\ tick_view.ran
  /\ Len(recv_inf) > 0
  /\ Len(recv_data) > Len(recv_inf)
  /\ inference_probs = recv_inf[Len(recv_inf)]
  /\ time_counter = delivered

\* Nothing was handed to on_new_eeg_data or on_new_inference since the last tick.
NothingSinceTick ==
  /\ tick_view.ran
  /\ tick_view.handled = Len(recv_data) + Len(recv_inf)

\* C23: whenever the GUI thread is between handlers a tick can run to its end,
\* whatever the producers are doing, and a tick of a connected session that
\* follows a tick of a connected session with no batch and no vector handled in
\* between presents the identical snapshot.
C23_TickToleratesNoData ==
  [][/\ GuiReady => ENABLED update_plots
     /\ update_plots =>
          /\ mainpc' = "idle"
          /\ threads' = threads
          /\ (is_connected /\ tick_view.connected /\ NothingSinceTick)
               => frame' = frame]_vars

C23_Witness ==
  /\ is_connected
  /\ tick_view.connected
  /\ NothingSinceTick
  /\ Len(posted) > 0
  /\ frame.time = time_buffer
  /\ Len(time_buffer) > 0
  /\ frame.bars = inference_probs

\* ------------------------------------------- motor imagery experiment
\* main() of motor_imagery_experiment.py and of
\* motor_imagery_experiment_with_duration.py (duration_markers), statement by
\* statement where a marker, an Escape test or an exit is involved.

\* ['left'] * TRIALS_PER_CLASS + ['right'] * TRIALS_PER_CLASS
BaseSequence ==
  [i \in 1 .. 2 * TRIALS_PER_CLASS |-> IF i <= TRIALS_PER_CLASS THEN "left" ELSE "right"]

Count(seq, x) == Cardinality({i \in 1 .. Len(seq) : seq[i] = x})

\* random.shuffle(trial_sequence): any rearrangement of the list
ShufflesWithReplacement(seq) == [1 .. Len(seq) -> {seq[i] : i \in 1 .. Len(seq)}]
Shuffles(seq) ==
  {s \in [1 .. Len(seq) -> {seq[i] : i \in 1 .. Len(seq)}] :
     \A x \in {seq[i] : i \in 1 .. Len(seq)} : Count(s, x) = Count(seq, x)}

\* self.send_marker(marker)
send_marker(marker) == markers' = Append(markers, marker)

\* the cue marker and cue_marker_end of run_trial
CueMarkerSwapped(trial_type) ==
  IF trial_type = "left" THEN MARKER_RIGHT_HAND ELSE MARKER_LEFT_HAND
CueMarker(trial_type) ==
  IF trial_type = "left" THEN MARKER_LEFT_HAND ELSE MARKER_RIGHT_HAND
CueEndMarker(trial_type) ==
  IF trial_type = "left" THEN MARKER_LEFT_HAND_END ELSE MARKER_RIGHT_HAND_END

\* self.cleanup(): print, self.win.close()
cleanup == cleanups' = cleanups + 1

\* exp = MotorImageryExperiment(), in either script
Construct(duration) ==
  /\ exp_pc = "main"
  /\ exp' = 1
  /\ duration_markers' = duration
  /\ exp_pc' = "run_experiment"
  /\ UNCHANGED << windowVars, trial_sequence, trial_idx, markers, cleanups, called,
                  escaped_at >>

\* run_experiment(): the shuffled sequence, the ready screen, the countdown
run_experiment ==
  /\ exp_pc = "run_experiment"
  /\ trial_sequence' \in Shuffles(BaseSequence)
  /\ trial_idx' = 1
  /\ exp_pc' = "for"
  /\ UNCHANGED << windowVars, exp, duration_markers, markers, cleanups, called,
                  escaped_at >>

\* for trial_idx, trial_type in enumerate(trial_sequence, start=1): run_trial(...)
ForTrial ==
  /\ exp_pc = "for"
  /\ IF trial_idx <= Len(trial_sequence)
       THEN /\ called' = Append(called, trial_sequence[trial_idx])
            /\ exp_pc' = "trial_start"
       ELSE /\ exp_pc' = "end_screen"
            /\ UNCHANGED called
  /\ UNCHANGED << windowVars, exp, duration_markers, trial_sequence, trial_idx, markers,
                  cleanups, escaped_at >>

\* run_trial: fixation, beep, self.send_marker(MARKER_TRIAL_START), core.wait
TrialStart ==
  /\ exp_pc = "trial_start"
  /\ send_marker(MARKER_TRIAL_START)
  /\ exp_pc' = "fixation_check"
  /\ UNCHANGED << windowVars, exp, duration_markers, trial_sequence, trial_idx,
                  cleanups, called, escaped_at >>

\* if 'escape' in event.getKeys(): self.cleanup(); core.quit()   (after fixation)
FixationCheck ==
  /\ exp_pc = "fixation_check"
  /\ \E escape \in BOOLEAN :
       IF escape
         THEN /\ cleanup
              /\ escaped_at' = Len(markers)
              /\ exp_pc' = "quit"
         ELSE /\ exp_pc' = "cue"
              /\ UNCHANGED << cleanups, escaped_at >>
  /\ UNCHANGED << windowVars, exp, duration_markers, trial_sequence, trial_idx, markers,
                  called >>

\* the arrow, self.send_marker(MARKER_LEFT_HAND / MARKER_RIGHT_HAND), the waits
Cue ==
  /\ exp_pc = "cue"
  /\ send_marker(CueMarker(trial_sequence[trial_idx]))
  /\ exp_pc' = IF duration_markers THEN "cue_end" ELSE "rest"
  /\ UNCHANGED << windowVars, exp, duration_markers, trial_sequence, trial_idx,
                  cleanups, called, escaped_at >>

\* self.send_marker(cue_marker_end)   (with duration markers only)
CueEnd ==
  /\ exp_pc = "cue_end"
  /\ send_marker(CueEndMarker(trial_sequence[trial_idx]))
  /\ exp_pc' = "trial_end"
  /\ UNCHANGED << windowVars, exp, duration_markers, trial_sequence, trial_idx,
                  cleanups, called, escaped_at >>

\* self.send_marker(MARKER_TRIAL_END)   (with duration markers only)
TrialEnd ==
  /\ exp_pc = "trial_end"
  /\ send_marker(MARKER_TRIAL_END)
  /\ exp_pc' = "rest"
  /\ UNCHANGED << windowVars, exp, duration_markers, trial_sequence, trial_idx,
                  cleanups, called, escaped_at >>

\* the rest period, then if 'escape' in event.getKeys(): self.cleanup(); core.quit()
RestCheck ==
  /\ exp_pc = "rest"
  /\ \E escape \in BOOLEAN :
       IF escape
         THEN /\ cleanup
              /\ escaped_at' = Len(markers)
              /\ exp_pc' = "quit"
              /\ UNCHANGED trial_idx
         ELSE /\ trial_idx' = trial_idx + 1
              /\ exp_pc' = "for"
              /\ UNCHANGED << cleanups, escaped_at >>
  /\ UNCHANGED << windowVars, exp, duration_markers, trial_sequence, markers, called >>

\* core.quit() ends in sys.exit(0): SystemExit is neither a KeyboardInterrupt nor
\* an Exception, so no handler of main() takes it
Quit ==
  /\ exp_pc = "quit"
  /\ exp_pc' = "finally"
  /\ UNCHANGED << windowVars, exp, duration_markers, trial_sequence, trial_idx, markers,
                  cleanups, called, escaped_at >>

\* the end screen, event.waitKeys(), return from run_experiment
EndScreen ==
  /\ exp_pc = "end_screen"
  /\ exp_pc' = "cleanup"
  /\ UNCHANGED << windowVars, exp, duration_markers, trial_sequence, trial_idx, markers,
                  cleanups, called, escaped_at >>

\* exp.cleanup() of main(); the call returns into the try block
MainCleanup ==
  /\ exp_pc = "cleanup"
  /\ cleanup
  /\ exp_pc' = "try_end"
  /\ UNCHANGED << windowVars, exp, duration_markers, trial_sequence, trial_idx, markers,
                  called, escaped_at >>

\* the try block is left
TryEnd ==
  /\ exp_pc = "try_end"
  /\ exp_pc' = "finally"
  /\ UNCHANGED << windowVars, exp, duration_markers, trial_sequence, trial_idx, markers,
                  cleanups, called, escaped_at >>

\* The statements of the try block of main().
TryBlock ==
  {"main", "run_experiment", "for", "trial_start", "fixation_check", "cue", "cue_end",
   "trial_end", "rest", "quit", "end_screen", "cleanup", "try_end"}

\* The statements of the try block that draw, wait for keys or push a sample.
Failing ==
  {"main", "run_experiment", "trial_start", "cue", "cue_end", "trial_end", "rest",
   "end_screen"}

\* except KeyboardInterrupt / except Exception: if exp is not None: exp.cleanup()
Handler ==
  /\ IF exp # None THEN cleanup ELSE UNCHANGED cleanups
  /\ exp_pc' = "finally"
  /\ UNCHANGED << windowVars, exp, duration_markers, trial_sequence, trial_idx, markers,
                  called, escaped_at >>

\* Ctrl-C: the interpreter raises KeyboardInterrupt between any two instructions
KeyboardInterrupt ==
  /\ exp_pc \in TryBlock
  /\ Handler

\* a statement of the try block raises an Exception
RaiseException ==
  /\ exp_pc \in Failing
  /\ Handler

\* finally: core.quit()
Finally ==
  /\ exp_pc = "finally"
  /\ exp_pc' = "exited"
  /\ UNCHANGED << windowVars, exp, duration_markers, trial_sequence, trial_idx, markers,
                  cleanups, called, escaped_at >>

NextExperiment ==
  \/ \E duration \in BOOLEAN : Construct(duration)
  \/ run_experiment
  \/ ForTrial
  \/ TrialStart
  \/ FixationCheck
  \/ Cue
  \/ CueEnd
  \/ TrialEnd
  \/ RestCheck
  \/ Quit
  \/ EndScreen
  \/ MainCleanup
  \/ TryEnd
  \/ KeyboardInterrupt
  \/ RaiseException
  \/ Finally

SpecExperiment == Init /\ [][NextExperiment]_vars

\* C24: a run that is not aborted executes TRIALS_PER_RUN trials, TRIALS_PER_CLASS
\* of type left and as many of type right, in an order that rearranges the
\* list built, and at every moment run_trial has been called once for each
\* element of a prefix of trial_sequence, in its order.
C24_TrialComposition ==
  /\ called = SubSeq(trial_sequence, 1, Len(called))
  /\ exp_pc \in {"end_screen", "cleanup", "try_end"} =>
       /\ Len(called) = TRIALS_PER_RUN
       /\ called = trial_sequence
       /\ Count(called, "left") = TRIALS_PER_CLASS
       /\ Count(called, "right") = TRIALS_PER_CLASS
       /\ \A i \in 1 .. Len(called) : called[i] \in {"left", "right"}

C24_Witness ==
  /\ exp_pc = "end_screen"
  /\ Len(called) = TRIALS_PER_RUN
  /\ called # BaseSequence
  /\ called[1] = "right"

\* The markers of one trial that runs to completion.
ExpectedMarkers(trial_type, duration) ==
  << MARKER_TRIAL_START,
     IF trial_type = "left" THEN MARKER_LEFT_HAND ELSE MARKER_RIGHT_HAND >>
  \o (IF duration
        THEN << IF trial_type = "left" THEN MARKER_LEFT_HAND_END
                                       ELSE MARKER_RIGHT_HAND_END,
                MARKER_TRIAL_END >>
        ELSE << >>)

RECURSIVE ExpectedRun(_, _)
ExpectedRun(types, duration) ==
  IF types = << >> THEN << >>
  ELSE ExpectedMarkers(Head(types), duration) \o ExpectedRun(Tail(types), duration)

\* C25: the markers sent are, trial after trial in the order of the calls of
\* run_trial, 768 and then the one cue marker of the trial's type (769 left, 770
\* right), followed with duration markers by the matching cue-end marker (1769,
\* 1770) and 1768; every trial that has run to completion has sent all of its
\* markers, so each start marker is followed by its own end marker before the
\* next trial's 768.
C25_MarkerProtocol ==
  LET full == ExpectedRun(called, duration_markers)
      completed == IF trial_idx = 0 THEN 0 ELSE trial_idx - 1
  IN /\ Len(markers) <= Len(full)
     /\ markers = SubSeq(full, 1, Len(markers))
     /\ Len(markers) >= Len(ExpectedRun(SubSeq(called, 1, completed), duration_markers))

C25_Witness ==
  /\ exp_pc = "end_screen"
  /\ duration_markers
  /\ Len(markers) = 4 * TRIALS_PER_RUN
  /\ markers[2] = MARKER_RIGHT_HAND
  /\ markers[3] = MARKER_RIGHT_HAND_END

\* C26: at most one DataSimulatorThread is started and not finished, every
\* thread but the newest has finished (a thread is started only after the
\* previous one has finished), and outside toggle_connection is_connected is
\* True exactly when the last connect started a thread that no stop() was
\* issued to.
C26_OneProducerPerSession ==
  /\ Cardinality({t \in ThreadIds : ~IsFinished(t)}) <= 1
  /\ \A t \in ThreadIds : t < Len(threads) => IsFinished(t)
  /\ mainpc # "wait" =>
       (is_connected <=> (data_thread # None /\ ~threads[data_thread].stop_called))
  /\ data_thread # None => data_thread = Len(threads)

C26_Witness ==
  /\ Len(threads) = 2
  /\ IsFinished(1)
  /\ threads[1].stop_called
  /\ IsAlive(2)
  /\ is_connected
  /\ mainpc = "idle"

\* C27: no step shortens a channel buffer or the time axis or lowers the time
\* counter; so a tick of a new session that comes before the session's first
\* batch presents the samples the buffers still hold, and once a spectral frame
\* has been produced every tick of a connected session produces one.
C27_LengthsNeverDecrease ==
  [][/\ \A ch \in Channels : Len(eeg_buffers'[ch]) >= Len(eeg_buffers[ch])
     /\ Len(time_buffer') >= Len(time_buffer)
     /\ time_counter' >= time_counter
     /\ (update_plots /\ is_connected /\ Len(time_buffer) > 0
           /\ SamplesFrom(recv_data, data_thread) = 0) =>
          /\ frame'.time = time_buffer
          /\ frame'.curves = eeg_buffers
     /\ (update_plots /\ is_connected /\ frame.spectrum # NoSpectrum) =>
          frame'.spectrum.window = LastN(eeg_buffers[0], fft_window)]_vars

C27_Witness ==
  /\ tick_view.ran
  /\ tick_view.connected
  /\ tick_view.thread = 2
  /\ data_thread = 2
  /\ SamplesFrom(recv_data, 2) = 0
  /\ Len(time_buffer) > 0
  /\ frame.time = time_buffer
  /\ frame.spectrum # NoSpectrum

\* The producer threads of the samples a buffer holds, oldest first.
SourcesOf(buffer) == [i \in 1 .. Len(buffer) |-> buffer[i][1]]

NonDecreasing(seq) == \A i \in 1 .. Len(seq) - 1 : seq[i] <= seq[i + 1]

\* C28: when a batch or a vector of a session's thread is handed to its slot,
\* the threads of all earlier sessions have finished and nothing they emitted
\* is still queued, so everything they emitted was handled before; the samples
\* in the buffers are never interleaved across sessions.
C28_SessionsInOrder ==
  [][/\ (DeliverData \/ DeliverInference) =>
          /\ \A k \in 1 .. Len(posted) : posted[k].src >= Head(posted).src
          /\ \A t \in ThreadIds : t < Head(posted).src => IsFinished(t)
     /\ \A ch \in Channels : NonDecreasing(SourcesOf(eeg_buffers'[ch]))
     /\ NonDecreasing([k \in 1 .. Len(recv_data') |-> recv_data'[k].cols[1][1]])]_vars

C28_Witness ==
  /\ mainpc = "idle"
  /\ Len(recv_data) = 2
  /\ recv_data[1].cols[1][1] = 1
  /\ recv_data[2].cols[1][1] = 2
  /\ SourcesOf(eeg_buffers[0])[1] = 1
  /\ SourcesOf(eeg_buffers[0])[buffer_size] = 2
  /\ Len(recv_inf) = 2

\* The label and the shown confidence are those of vector p.
DerivedFrom(p) ==
  /\ class_indicator \in {"left", "right"}
  /\ p.n[1] > p.n[2] => class_indicator = "left"
  /\ p.n[2] > p.n[1] => class_indicator = "right"
  /\ 2 * (confidence_label * p.d - 1000 * Max(p.n[1], p.n[2])) <= p.d
  /\ 2 * (1000 * Max(p.n[1], p.n[2]) - confidence_label * p.d) <= p.d

ClassificationWhole ==
  IF recv_inf = << >>
    THEN /\ inference_probs = [n |-> << 50, 50 >>, d |-> 100]
         /\ class_indicator = "pending"
         /\ confidence_label = NoConfidence
    ELSE /\ inference_probs = LastReceived
         /\ DerivedFrom(LastReceived)

\* C29: in every state between handlers, and so at every tick, the stored
\* vector is the one delivered last and the label and confidence shown are
\* derived from it; the bars a tick draws are that vector; before the first
\* delivery the vector is [0.5, 0.5], the indicator pending and no confidence
\* shown.
C29_ClassificationNeverTorn ==
  [][/\ ClassificationWhole
     /\ ClassificationWhole'
     /\ (update_plots /\ is_connected /\ Len(time_buffer) > 0) =>
          /\ frame'.bars = inference_probs
          /\ recv_inf # << >> => frame'.bars = LastReceived]_vars

C29_Witness ==
  /\ tick_view.ran
  /\ tick_view.connected
  /\ Len(recv_inf) = 2
  /\ recv_inf[1] # recv_inf[2]
  /\ frame.bars = recv_inf[2]
  /\ inference_probs = recv_inf[2]
  /\ class_indicator = "right"
  /\ tick_view.handled = Len(recv_data) + Len(recv_inf)

\* C30: when main() has ended and the MotorImageryExperiment object had been
\* constructed, cleanup() has been executed exactly once (and never more than
\* once on the way), whether the run completed, Escape was detected in
\* run_trial, or KeyboardInterrupt or another exception was raised; and no
\* marker was sent after Escape was detected.
C30_CleanupExactlyOnce ==
  /\ cleanups <= 1
  /\ (exp_pc = "exited" /\ exp # None) => cleanups = 1
  /\ escaped_at >= 0 => Len(markers) = escaped_at

====
